---- MODULE Spec2Model ----
(***************************************************************************)
(* Model of scrapylib.chunkexports.ChunkedFeedExporter: a feed exporter    *)
(* that writes scraped items to a sequence of chunks, rotating to a new    *)
(* chunk once CHUNKED_FEED_ITEMS_PER_CHUNK items were written to the       *)
(* current one.                                                            *)
(*                                                                         *)
(* The class extends scrapy.contrib.feedexport.FeedExporter (imported at   *)
(* chunkexports.py:5).  The inherited open_spider / close_spider /         *)
(* item_scraped and the SpiderSlot they keep in self.slot are not part of  *)
(* the repository; they are modelled here as the sink the exporter drives  *)
(* (open, write, close, and the per-slot item count).                      *)
(***************************************************************************)
EXTENDS Integers, Sequences, FiniteSets, TLC

\* ------------------------------------------------------------------ bounds
MaxItems  == 5   \* item_scraped calls of a run
MaxSinks  == 6   \* sinks opened in a run
MaxStores == 2   \* times one sink is finished and stored
MaxFaults == 1   \* sink operations that raise in a run
MaxClock  == 1   \* hours the clock advances during a run

\* ------------------------------------------------------- python values
\* A settings value: None, a str or an int.
PyNone   == <<"none">>
PyStr(s) == <<"str", s>>
PyInt(n) == <<"int", n>>

\* Python truthiness, as used by `if not value` (chunkexports.py:95).
Truthy(v) ==
    CASE v[1] = "none" -> FALSE
      [] v[1] = "str"  -> v[2] # ""
      [] v[1] = "int"  -> v[2] # 0

DEFAULT_TIMESTAMP_FORMAT == "%Y-%m-%d-%H"

\* The two address templates of the model: the tests' pattern and one that
\* uses every uri format value of the class docstring.
TemplateA == "export_%(chunk_number)02d.json"
TemplateB == "%(scrapy_job)s/%(scrapy_project_id)s/%(timestamp)s/%(chunk_number)02d.json"

VARIABLES
    settings,           \* the caller's settings object
    environ,            \* os.environ (SCRAPY_JOB, SCRAPY_PROJECT, SCRAPY_PROJECT_ID)
    now,                \* hours elapsed on the UTC clock
    state,              \* "new" | "configured" | "not_configured"
    self_settings,      \* self.settings, the exporter's own copy
    urifmt,             \* FeedExporter.urifmt  (settings['FEED_URI'])
    format,             \* FeedExporter.format  (settings['FEED_FORMAT'])
    store_empty,        \* FeedExporter.store_empty
    items_per_chunk,    \* self._items_per_chunk
    chunk_number,       \* self._chunk_number
    timestamp_format,   \* self._timestamp_format
    scrapy_job,         \* self._scrapy_job
    scrapy_project,     \* self._scrapy_project
    scrapy_project_id,  \* self._scrapy_project_id
    slot,               \* self.slot: index into sinks, 0 while the attribute is unset
    sinks,              \* every SpiderSlot opened so far, in opening order
    item_id,            \* ItemGenerator.item_id: items generated and submitted
    result,             \* [call, exc] of the latest driver call
    driver,             \* the caller's view: "idle" | "open" | "closed"
    faults,             \* sink operations that raised so far
    misused             \* the driver made a call out of the open / submit* / close order

vars == <<settings, environ, now, state, self_settings, urifmt, format, store_empty,
          items_per_chunk, chunk_number, timestamp_format, scrapy_job, scrapy_project,
          scrapy_project_id, slot, sinks, item_id, result, driver, faults,
          misused>>

\* ------------------------------------------------------------ settings
\* Settings.get(name, default): the value when the name is set, else default.
SettingsGet(s, name, default) == IF s[name] # PyNone THEN s[name] ELSE default

\* os.environ.get(name, default)
EnvironGet(name, default) == IF environ[name] # PyNone THEN environ[name] ELSE default

BaseSettings ==
    [ CHUNKED_FEED_URI              |-> PyStr(TemplateA),
      CHUNKED_FEED_FORMAT           |-> PyStr("json"),
      CHUNKED_FEED_ITEMS_PER_CHUNK  |-> PyInt(2),
      CHUNKED_FEED_TIMESTAMP_FORMAT |-> PyNone,
      SCRAPY_JOB                    |-> PyNone,
      SCRAPY_PROJECT                |-> PyNone,
      SCRAPY_PROJECT_ID             |-> PyNone,
      FEED_URI                      |-> PyNone,
      FEED_FORMAT                   |-> PyNone,
      FEED_STORE_EMPTY              |-> PyNone ]

UriValues    == {PyNone, PyStr(""), PyStr(TemplateA)}
FormatValues == {PyNone, PyStr(""), PyStr("json")}
ChunkValues  == {PyNone, PyInt(0), PyInt(-1), PyInt(1), PyInt(2), PyInt(3)}

\* Settings that exercise the three required names, the rest left unset.
GateSettings ==
    { [BaseSettings EXCEPT !.CHUNKED_FEED_URI = u, !.CHUNKED_FEED_FORMAT = f,
                           !.CHUNKED_FEED_ITEMS_PER_CHUNK = n] :
        u \in UriValues, f \in FormatValues, n \in ChunkValues }

\* The optional names as a caller may set them: the three job identity
\* names, the timestamp format, and the caller's own feed settings
\* (FEED_URI, FEED_FORMAT, FEED_STORE_EMPTY).
OptionValues ==
    { [ts |-> PyNone, job |-> PyNone, project |-> PyNone, pid |-> PyNone,
       uri |-> PyNone, fmt |-> PyNone, empty |-> PyNone],
      [ts |-> PyStr("%Y-%m-%d"), job |-> PyStr("job-s"), project |-> PyStr("project-s"),
       pid |-> PyStr("pid-s"), uri |-> PyStr("stdout:"), fmt |-> PyStr("csv"),
       empty |-> PyInt(1)],
      [ts |-> PyNone, job |-> PyStr("job-s"), project |-> PyNone, pid |-> PyNone,
       uri |-> PyStr("stdout:"), fmt |-> PyNone, empty |-> PyNone] }

\* Settings that exercise the optional names, on a valid configuration.
OptionSettings ==
    { [BaseSettings EXCEPT !.CHUNKED_FEED_URI = PyStr(TemplateB),
                           !.CHUNKED_FEED_TIMESTAMP_FORMAT = o.ts,
                           !.SCRAPY_JOB = o.job, !.SCRAPY_PROJECT = o.project,
                           !.SCRAPY_PROJECT_ID = o.pid,
                           !.FEED_URI = o.uri, !.FEED_FORMAT = o.fmt,
                           !.FEED_STORE_EMPTY = o.empty] : o \in OptionValues }

SettingsValues == GateSettings \cup OptionSettings

EnvironValues ==
    { [SCRAPY_JOB |-> PyNone, SCRAPY_PROJECT |-> PyNone, SCRAPY_PROJECT_ID |-> PyNone],
      [SCRAPY_JOB |-> PyStr("job-e"), SCRAPY_PROJECT |-> PyStr("project-e"),
       SCRAPY_PROJECT_ID |-> PyStr("pid-e")] }

\* --------------------------------------------------------------- clock
\* The clock starts at 23:00 of day 0 and counts whole hours.
Day(t)  == (23 + t) \div 24
Hour(t) == (23 + t) % 24

\* datetime.strftime for the formats of the model: the fields a format renders.
strftime(fmt, t) ==
    CASE fmt = "%Y-%m-%d-%H" -> <<Day(t), Hour(t)>>
      [] fmt = "%Y-%m-%d"    -> <<Day(t)>>
      [] OTHER               -> <<>>

\* ------------------------------------------------------- uri resolution
\* The placeholders of a template, in order.
Placeholders(tpl) ==
    CASE tpl = TemplateA -> <<"chunk_number">>
      [] tpl = TemplateB -> <<"scrapy_job", "scrapy_project_id", "timestamp", "chunk_number">>
      [] OTHER           -> <<>>

\* %02d: a decimal rendering padded with zeros to two digits.
RECURSIVE Digits(_)
Digits(n) == IF n < 10 THEN <<n>> ELSE Digits(n \div 10) \o <<n % 10>>
Pad2(n) == IF n < 10 THEN <<0, n>> ELSE Digits(n)

\* One placeholder rendered: %(chunk_number)02d, %(name)s otherwise.
Render(key, p) == IF key = "chunk_number" THEN Pad2(p[key]) ELSE p[key]

\* urifmt % params  (FeedExporter.open_spider)
Resolve(tpl, p) ==
    <<tpl>> \o [i \in 1..Len(Placeholders(tpl)) |-> Render(Placeholders(tpl)[i], p)]

\* get_uri_parameters that looks the job identity up again at each resolution.
get_uri_parameters_lookup(cn) ==
    [ chunk_number      |-> cn,
      scrapy_job        |-> EnvironGet("SCRAPY_JOB", scrapy_job),
      scrapy_project_id |-> EnvironGet("SCRAPY_PROJECT_ID", scrapy_project_id),
      timestamp         |-> strftime("%Y-%m-%d-%H", now) ]

\* ChunkedFeedExporter.get_uri_parameters: the values added to the mapping.
get_uri_parameters(cn) ==
    [ chunk_number      |-> cn,
      scrapy_job        |-> scrapy_job,
      scrapy_project_id |-> scrapy_project_id,
      timestamp         |-> strftime("%Y-%m-%d-%H", now) ]

\* ---------------------------------------------------------------- init
Init ==
    /\ settings \in SettingsValues
    /\ environ \in EnvironValues
    /\ now = 0
    /\ state = "new"
    /\ self_settings = PyNone
    /\ urifmt = PyNone
    /\ format = PyNone
    /\ store_empty = FALSE
    /\ items_per_chunk = PyNone
    /\ chunk_number = 0
    /\ timestamp_format = PyNone
    /\ scrapy_job = PyNone
    /\ scrapy_project = PyNone
    /\ scrapy_project_id = PyNone
    /\ slot = 0
    /\ sinks = <<>>
    /\ item_id = 0
    /\ result = [call |-> "none", exc |-> "none"]
    /\ driver = "idle"
    /\ faults = 0
    /\ misused = FALSE

\* ------------------------------------------------------- construction
\* ChunkedFeedExporter._get_from_settings_or_not_configured: the value, and
\* whether NotConfigured is raised instead of returning it.
get_from_settings_or_not_configured(s, name) ==
    LET value == SettingsGet(s, name, PyNone)
    IN  [value |-> value, raised |-> ~Truthy(value)]

\* The lookup with the environment taking precedence over the settings.
get_from_settings_or_environ_env_first(s, name, default) ==
    EnvironGet(name, SettingsGet(s, name, default))

\* ChunkedFeedExporter._get_from_settings_or_environ
get_from_settings_or_environ(s, name, default) ==
    SettingsGet(s, name, EnvironGet(name, default))

\* A counter that starts at 0 instead of 1.
initial_chunk_number_zero == 1 - 1

\* self._chunk_number = 1
initial_chunk_number == 1

\* Settings.getbool
GetBool(s, name) == s[name] = PyInt(1)

\* The constructor working on the caller's object itself, without copying.
deepcopy_alias(s) == [obj |-> s, shared |-> TRUE]

\* copy.deepcopy(settings): an object with the same content that shares
\* nothing with the caller's.
deepcopy(s) == [obj |-> s, shared |-> FALSE]

\* ChunkedFeedExporter.__init__ (through from_crawler)
Construct ==
    /\ state = "new"
    /\ LET c   == deepcopy(settings)
           s0  == c.obj
           uri == get_from_settings_or_not_configured(s0, "CHUNKED_FEED_URI")
           fmt == get_from_settings_or_not_configured(s0, "CHUNKED_FEED_FORMAT")
           ipc == get_from_settings_or_not_configured(s0, "CHUNKED_FEED_ITEMS_PER_CHUNK")
           s1  == [s0 EXCEPT !.FEED_URI = uri.value, !.FEED_FORMAT = fmt.value]
       IN  IF uri.raised \/ fmt.raised \/ ipc.raised
           THEN /\ state' = "not_configured"
                /\ self_settings' = s0
                /\ result' = [call |-> "__init__", exc |-> "NotConfigured"]
                /\ UNCHANGED <<settings, urifmt, format, store_empty, items_per_chunk, chunk_number,
                               timestamp_format, scrapy_job, scrapy_project,
                               scrapy_project_id>>
           ELSE /\ state' = "configured"
                /\ self_settings' = s1
                /\ settings' = IF c.shared THEN s1 ELSE settings
                /\ items_per_chunk' = ipc.value
                /\ urifmt' = s1.FEED_URI
                /\ format' = s1.FEED_FORMAT
                /\ store_empty' = GetBool(s1, "FEED_STORE_EMPTY")
                /\ chunk_number' = initial_chunk_number
                /\ timestamp_format' =
                       SettingsGet(s1, "CHUNKED_FEED_TIMESTAMP_FORMAT",
                                   PyStr(DEFAULT_TIMESTAMP_FORMAT))
                /\ scrapy_job' = get_from_settings_or_environ(s1, "SCRAPY_JOB", PyStr("nojob"))
                /\ scrapy_project' =
                       get_from_settings_or_environ(s1, "SCRAPY_PROJECT", PyStr("noproject"))
                /\ scrapy_project_id' =
                       get_from_settings_or_environ(s1, "SCRAPY_PROJECT_ID",
                                                    PyStr("noprojectid"))
                /\ result' = [call |-> "__init__", exc |-> "none"]
    /\ UNCHANGED <<environ, now, slot, sinks, item_id, driver, faults,
                   misused>>

\* ------------------------------------------------------------ the sink
\* The part of the exporter a call works on; exc is the exception it raised,
\* failed the number of sink operations that failed during the call.
World ==
    [chunk_number |-> chunk_number, slot |-> slot, sinks |-> sinks, exc |-> "none",
     failed |-> 0]

\* SpiderSlot(file, exporter, storage, uri): a sink just opened.
SpiderSlot(cn, uri) ==
    [chunk_number |-> cn, uri |-> uri, items |-> <<>>, itemcount |-> 0,
     open |-> TRUE, stores |-> 0]

\* FeedExporter.open_spider: resolve the address, open the storage, keep the
\* new slot in self.slot.  `fail`: storage.open raises.
open_spider(w, fail) ==
    LET p   == get_uri_parameters(w.chunk_number)
        uri == Resolve(urifmt[2], p)
    IN  IF fail
        THEN [w EXCEPT !.exc = "SinkOpenError", !.failed = @ + 1]
        ELSE [w EXCEPT !.sinks = Append(@, SpiderSlot(w.chunk_number, uri)),
                       !.slot = Len(w.sinks) + 1]

\* FeedExporter.close_spider: nothing to store for an empty slot unless
\* FEED_STORE_EMPTY; else finish the export and store the file.
\* `fail`: finish_exporting raises.
close_spider(w, fail) ==
    IF w.slot = 0
    THEN [w EXCEPT !.exc = "AttributeError"]
    ELSE IF w.sinks[w.slot].itemcount = 0 /\ ~store_empty
    THEN w
    ELSE IF fail
    THEN [w EXCEPT !.exc = "SinkCloseError", !.failed = @ + 1]
    ELSE [w EXCEPT !.sinks[w.slot].open = FALSE, !.sinks[w.slot].stores = @ + 1]

\* FeedExporter.item_scraped: export the item to the slot, count it.
\* `fail`: export_item raises.
base_item_scraped(w, item, fail) ==
    IF w.slot = 0
    THEN [w EXCEPT !.exc = "AttributeError"]
    ELSE IF fail
    THEN [w EXCEPT !.exc = "SinkWriteError", !.failed = @ + 1]
    ELSE [w EXCEPT !.sinks[w.slot].items = Append(@, item),
                   !.sinks[w.slot].itemcount = @ + 1]

\* ------------------------------------------------------------ rotation
\* _reset_exporter that reopens without advancing the chunk number.
reset_exporter_no_advance(w, fail) ==
    LET w1 == close_spider(w, fail = "close")
    IN  IF w1.exc # "none"
        THEN w1
        ELSE open_spider(w1, fail = "open")

\* _reset_exporter that catches a failure of close_spider and goes on.
reset_exporter_swallows(w, fail) ==
    LET w1 == close_spider(w, fail = "close")
    IN  open_spider([w1 EXCEPT !.exc = "none", !.chunk_number = @ + 1], fail = "open")

\* ChunkedFeedExporter._reset_exporter
reset_exporter(w, fail) ==
    LET w1 == close_spider(w, fail = "close")
    IN  IF w1.exc # "none"
        THEN w1
        ELSE open_spider([w1 EXCEPT !.chunk_number = @ + 1], fail = "open")

\* The comparison written with > instead of >=.
rotation_due_gt(w) ==
    /\ Truthy(items_per_chunk)
    /\ w.sinks[w.slot].itemcount > items_per_chunk[2]

\* The comparison made on the records of the whole run instead of the slot's.
rotation_due_total(w) ==
    /\ Truthy(items_per_chunk)
    /\ item_id >= items_per_chunk[2]

\* The comparison made one item early, counting the item being exported.
rotation_due_early(w) ==
    /\ Truthy(items_per_chunk)
    /\ w.sinks[w.slot].itemcount + 1 >= items_per_chunk[2]

\* The condition of ChunkedFeedExporter.item_scraped:
\* self._items_per_chunk and self.slot.itemcount >= self._items_per_chunk
rotation_due(w) ==
    /\ Truthy(items_per_chunk)
    /\ w.sinks[w.slot].itemcount >= items_per_chunk[2]

\* item_scraped that rotates after it wrote the item instead of before.
item_scraped_rotates_after(w, item, fail) ==
    IF w.slot = 0
    THEN [w EXCEPT !.exc = "AttributeError"]
    ELSE LET w1 == base_item_scraped(w, item, fail = "write")
         IN  IF w1.exc # "none"
             THEN w1
             ELSE IF rotation_due(w1) THEN reset_exporter(w1, fail) ELSE w1

\* item_scraped that returns after a rotation without exporting the item.
item_scraped_drops(w, item, fail) ==
    IF w.slot = 0
    THEN [w EXCEPT !.exc = "AttributeError"]
    ELSE IF rotation_due(w)
         THEN reset_exporter(w, fail)
         ELSE base_item_scraped(w, item, fail = "write")

\* item_scraped that exports the item in the rotation branch and again after it.
item_scraped_exports_twice(w, item, fail) ==
    IF w.slot = 0
    THEN [w EXCEPT !.exc = "AttributeError"]
    ELSE LET r  == reset_exporter(w, fail)
             w1 == IF ~rotation_due(w) THEN w
                   ELSE IF r.exc # "none" THEN r
                   ELSE base_item_scraped(r, item, FALSE)
         IN  IF w1.exc # "none"
             THEN w1
             ELSE base_item_scraped(w1, item, fail = "write")

\* ChunkedFeedExporter.item_scraped
item_scraped(w, item, fail) ==
    IF w.slot = 0
    THEN [w EXCEPT !.exc = "AttributeError"]
    ELSE LET w1 == IF rotation_due(w) THEN reset_exporter(w, fail) ELSE w
         IN  IF w1.exc # "none"
             THEN w1
             ELSE base_item_scraped(w1, item, fail = "write")

\* ------------------------------------------------------------- driver
SinkErrors == {"SinkOpenError", "SinkCloseError", "SinkWriteError"}

\* The bounds of the model on what a call may leave behind.
WithinBounds(w) ==
    /\ Len(w.sinks) <= MaxSinks
    /\ \A i \in 1..Len(w.sinks) : w.sinks[i].stores <= MaxStores

\* The exporter's state after a call that ended in w.
Commit(w, call) ==
    /\ WithinBounds(w)
    /\ chunk_number' = w.chunk_number
    /\ slot' = w.slot
    /\ sinks' = w.sinks
    /\ result' = [call |-> call, exc |-> w.exc]
    /\ faults' = faults + w.failed

\* The caller's side of a call: in order, or out of order.  The driver makes
\* no further call after one it made out of order.
Protocol(inOrder, next) ==
    /\ ~misused
    /\ IF inOrder
       THEN driver' = next /\ UNCHANGED misused
       ELSE misused' = TRUE /\ UNCHANGED driver

\* The driver calls open_spider (ChunkExtensionTest.start).
OpenSpider ==
    /\ state = "configured"
    /\ \E fail \in BOOLEAN :
         /\ fail => faults < MaxFaults
         /\ LET w == open_spider(World, fail)
            IN  /\ Commit(w, "open_spider")
                /\ Protocol(driver = "idle", IF w.exc = "none" THEN "open" ELSE "idle")
    /\ UNCHANGED <<settings, environ, now, state, self_settings, urifmt, format,
                   store_empty, items_per_chunk, timestamp_format, scrapy_job,
                   scrapy_project, scrapy_project_id, item_id>>

\* The driver generates an item and calls item_scraped (ChunkExtensionTest.add_items).
ItemScraped ==
    /\ state = "configured"
    /\ item_id < MaxItems
    /\ \E fail \in {"none", "close", "open", "write"} :
         /\ fail # "none" => faults < MaxFaults
         /\ LET w == item_scraped(World, item_id + 1, fail)
            IN  /\ Commit(w, "item_scraped")
                /\ Protocol(driver = "open", "open")
    /\ item_id' = item_id + 1
    /\ UNCHANGED <<settings, environ, now, state, self_settings, urifmt, format,
                   store_empty, items_per_chunk, timestamp_format, scrapy_job,
                   scrapy_project, scrapy_project_id>>

\* The driver calls close_spider (ChunkExtensionTest.stop).
CloseSpider ==
    /\ state = "configured"
    /\ \E fail \in BOOLEAN :
         /\ fail => faults < MaxFaults
         /\ LET w == close_spider(World, fail)
            IN  /\ Commit(w, "close_spider")
                /\ Protocol(driver = "open", IF w.exc = "none" THEN "closed" ELSE "open")
    /\ UNCHANGED <<settings, environ, now, state, self_settings, urifmt, format,
                   store_empty, items_per_chunk, timestamp_format, scrapy_job,
                   scrapy_project, scrapy_project_id, item_id>>

\* ------------------------------------------------------- environment
\* The UTC clock advances by an hour.
Tick ==
    /\ now < MaxClock
    /\ now' = now + 1
    /\ UNCHANGED <<settings, environ, state, self_settings, urifmt, format, store_empty,
                   items_per_chunk, chunk_number, timestamp_format, scrapy_job,
                   scrapy_project, scrapy_project_id, slot, sinks, item_id,
                   result, driver, faults, misused>>

\* The process environment changes after the exporter was constructed.
EnvChange ==
    /\ state = "configured"
    /\ environ' \in EnvironValues \ {environ}
    /\ UNCHANGED <<settings, now, state, self_settings, urifmt, format, store_empty,
                   items_per_chunk, chunk_number, timestamp_format, scrapy_job,
                   scrapy_project, scrapy_project_id, slot, sinks, item_id,
                   result, driver, faults, misused>>

Next == Construct \/ OpenSpider \/ ItemScraped \/ CloseSpider \/ Tick \/ EnvChange

Spec == Init /\ [][Next]_vars

\* ====================================================== properties
Configured == state = "configured"

\* A run made in the order open_spider, item_scraped*, close_spider in
\* which no sink operation raised.
CleanRun == Configured /\ faults = 0 /\ ~misused

\* The threshold t of a configured exporter.
Threshold == items_per_chunk[2]

CeilDiv(n, t) == (n + t - 1) \div t

Max(a, b) == IF a >= b THEN a ELSE b

\* The records of the sinks opened under chunk number k, in opening order.
RECURSIVE RecordsOf(_, _)
RecordsOf(k, i) ==
    IF i > Len(sinks) THEN <<>>
    ELSE (IF sinks[i].chunk_number = k THEN sinks[i].items ELSE <<>>) \o RecordsOf(k, i + 1)

\* The chunks 1..k concatenated in chunk-number order.
RECURSIVE Concatenated(_)
Concatenated(k) == IF k = 0 THEN <<>> ELSE Concatenated(k - 1) \o RecordsOf(k, 1)

\* The chunk numbers under which the sinks were opened, in opening order.
OpenedNumbers == [i \in 1..Len(sinks) |-> sinks[i].chunk_number]

\* C1: Partition property.  A finished clean run of n >= 1 records with
\* threshold t > 0 has produced exactly ceil(n/t) chunks, each stored once;
\* every chunk but the last holds t records and the last holds
\* n - t*(ceil(n/t)-1) records, a number in 1..t.
C1_Partition ==
    (CleanRun /\ driver = "closed" /\ Threshold > 0 /\ item_id >= 1) =>
        LET n == item_id
            t == Threshold
            c == CeilDiv(n, t)
        IN  /\ Len(sinks) = c
            /\ \A k \in 1..(c - 1) : Len(sinks[k].items) = t
            /\ Len(sinks[c].items) = n - t * (c - 1)
            /\ Len(sinks[c].items) \in 1..t
            /\ \A k \in 1..c : sinks[k].stores = 1 /\ ~sinks[k].open

\* t = 2, n = 5 finished: chunks of 2, 2 and 1 records.
C1_Witness ==
    /\ CleanRun /\ driver = "closed" /\ Threshold = 2 /\ item_id = 5
    /\ Len(sinks) = 3 /\ Len(sinks[3].items) = 1

\* C2: No cross-chunk leakage.  In a clean run the chunks concatenated in
\* chunk-number order are the submitted records 1..n, each once and in
\* submission order.
C2_NoLeakage ==
    (CleanRun /\ driver \in {"open", "closed"}) =>
        Concatenated(chunk_number) = [i \in 1..item_id |-> i]

\* A finished run whose records crossed two rotation boundaries.
C2_Witness ==
    /\ CleanRun /\ driver = "closed" /\ item_id = 5 /\ Len(sinks) = 3
    /\ sinks[2].items = <<3, 4>> /\ sinks[3].items = <<5>>

InvalidConfiguration(s) ==
    \/ s.CHUNKED_FEED_ITEMS_PER_CHUNK = PyNone
    \/ s.CHUNKED_FEED_ITEMS_PER_CHUNK[2] <= 0
    \/ s.CHUNKED_FEED_URI \in {PyNone, PyStr("")}
    \/ s.CHUNKED_FEED_FORMAT \in {PyNone, PyStr("")}

\* C4: Configuration gate.  Construction from an invalid configuration ends
\* in NotConfigured, no sink is opened and no record is accepted.
C4_ConfigurationGate ==
    (state # "new" /\ InvalidConfiguration(settings)) =>
        /\ state = "not_configured"
        /\ result = [call |-> "__init__", exc |-> "NotConfigured"]
        /\ sinks = <<>>
        /\ item_id = 0

\* C5: No chunk exceeds the threshold.  With t > 0 no sink ever holds more
\* than t records, whatever was called and whatever raised; and in a clean
\* run every sink opened by a rotation follows a sink holding exactly t
\* records and starts with the record that triggered the rotation.
C5_NeverExceedsThreshold ==
    (Configured /\ Threshold > 0) =>
        /\ \A i \in 1..Len(sinks) :
             /\ sinks[i].itemcount <= Threshold
             /\ Len(sinks[i].items) = sinks[i].itemcount
        /\ CleanRun =>
             \A i \in 2..Len(sinks) :
                /\ sinks[i - 1].itemcount = Threshold
                /\ sinks[i].items # <<>>
                /\ sinks[i].items[1] = sinks[i - 1].items[Threshold] + 1

\* A full chunk was rotated: the triggering record opens the new chunk.
C5_Witness ==
    /\ CleanRun /\ Threshold = 3 /\ Len(sinks) = 2
    /\ sinks[1].items = <<1, 2, 3>> /\ sinks[2].items = <<4>>

\* C6: Zero-record run.  open_spider then close_spider with no item_scraped
\* in between has opened at most one sink and the chunk number is still 1.
C6_ZeroRecordRun ==
    (Configured /\ ~misused /\ driver = "closed" /\ item_id = 0) =>
        /\ Len(sinks) <= 1
        /\ chunk_number = 1

\* The zero-record run finished; its one sink holds nothing.
C6_Witness ==
    /\ Configured /\ ~misused /\ driver = "closed" /\ item_id = 0
    /\ Len(sinks) = 1 /\ sinks[1].items = <<>>

\* A sink was opened in this step; the address it was opened with.
SinkOpened == Len(sinks') = Len(sinks) + 1
NewUri == sinks'[Len(sinks')].uri

\* C7: Resolution parameters.  Every address resolved carries the current
\* chunk number, the job id, the project id, and the current UTC time
\* rendered with the configured timestamp format.  (TemplateB shows the four
\* parameters in the address, in the order job, project id, timestamp,
\* chunk number.)
C7_ResolutionParameters ==
    [][(SinkOpened /\ urifmt = PyStr(TemplateB)) =>
          /\ NewUri[2] = scrapy_job
          /\ NewUri[3] = scrapy_project_id
          /\ NewUri[4] = strftime(timestamp_format[2], now)
          /\ NewUri[5] = Pad2(chunk_number')]_vars

\* C8: Sink release on every exit path.  When item_scraped exits with an
\* error of the sink (threshold t > 0, calls made in order), no sink is left
\* open.
C8_SinkReleasedOnError ==
    (Configured /\ Threshold > 0 /\ ~misused
        /\ result.call = "item_scraped" /\ result.exc \in SinkErrors) =>
        \A i \in 1..Len(sinks) : ~sinks[i].open

\* C9: Lifecycle guard.  A call made out of the order open_spider,
\* item_scraped*, close_spider (threshold t > 0) is rejected with an error
\* and changes neither the chunk number, the item counts nor any sink.
C9_LifecycleGuard ==
    [][(Configured /\ Threshold > 0 /\ ~misused /\ misused') =>
          /\ result'.exc # "none"
          /\ chunk_number' = chunk_number
          /\ sinks' = sinks
          /\ slot' = slot]_vars

\* The value the identity `name` is to take at construction: the settings'
\* when set, else the environment's, else the sentinel.
IdentityOf(name, sentinel) ==
    IF settings[name] # PyNone THEN settings[name]
    ELSE IF environ[name] # PyNone THEN environ[name]
    ELSE PyStr(sentinel)

\* C10: Job and project identity.  Construction fixes the job id, the
\* project and the project id from the settings, else the environment, else
\* the sentinel; no later step changes them, and every chunk is resolved
\* with the same job id and project id.
C10_IdentityFixed ==
    /\ [][(state = "new" /\ state' = "configured") =>
             /\ scrapy_job' = IdentityOf("SCRAPY_JOB", "nojob")
             /\ scrapy_project' = IdentityOf("SCRAPY_PROJECT", "noproject")
             /\ scrapy_project_id' = IdentityOf("SCRAPY_PROJECT_ID", "noprojectid")]_vars
    /\ [][Configured =>
             UNCHANGED <<scrapy_job, scrapy_project, scrapy_project_id>>]_vars
    /\ [](urifmt = PyStr(TemplateB) =>
             \A i \in 1..Len(sinks) :
                sinks[i].uri[2] = scrapy_job /\ sinks[i].uri[3] = scrapy_project_id)

\* The job id came from the environment, which has changed since; the
\* project id is the sentinel; two chunks were resolved.
C10_Witness ==
    /\ Configured /\ settings.SCRAPY_JOB = PyNone
    /\ scrapy_job = PyStr("job-e") /\ environ.SCRAPY_JOB = PyNone
    /\ urifmt = PyStr(TemplateB) /\ Len(sinks) = 2
    /\ sinks[2].uri[2] = PyStr("job-e")

\* The sinks that are open.
OpenSinks == {i \in 1..Len(sinks) : sinks[i].open}

\* C11: Sink exclusivity and strict sequencing.  In every reachable state
\* (threshold t > 0) at most one sink is open and it is the one opened last,
\* so no sink was opened while an earlier one was still open; between
\* open_spider and close_spider of a run without sink failures exactly one
\* sink is open.
C11_SinkExclusivity ==
    (Configured /\ Threshold > 0) =>
        /\ Cardinality(OpenSinks) <= 1
        /\ OpenSinks \subseteq {Len(sinks)}
        /\ (driver = "open" /\ faults = 0 /\ ~misused) => OpenSinks = {slot}

\* An item_scraped call that finds fewer than t records in the current chunk.
BelowThreshold ==
    /\ item_id' = item_id + 1
    /\ slot # 0
    /\ Truthy(items_per_chunk)
    /\ sinks[slot].itemcount < Threshold

\* What a step does to the chunk number and the sinks when it is an
\* item_scraped call below the threshold, or a close_spider call.
RotationFrame ==
    /\ BelowThreshold =>
           (/\ chunk_number' = chunk_number
            /\ slot' = slot
            /\ Len(sinks') = Len(sinks)
            /\ sinks'[slot].open = sinks[slot].open
            /\ sinks'[slot].uri = sinks[slot].uri)
    /\ result'.call = "close_spider" =>
           (/\ chunk_number' = chunk_number
            /\ slot' = slot
            /\ Len(sinks') = Len(sinks)
            /\ \A i \in 1..Len(sinks) : sinks'[i].open => sinks[i].open)

\* C12: Rotation is triggered only by the count comparison of item_scraped.
\* An item_scraped call that finds fewer than t records in the current chunk
\* leaves the chunk number and the open sink as they are; a close_spider call
\* never advances the chunk number and never opens a sink; and so, in a
\* failure-free run, after exactly k * t records the chunk number is k, and
\* finishing then yields k chunks none of which is empty.
C12_RotationOnlyByCount ==
    /\ [][RotationFrame]_vars
    /\ [](\A k \in 1..MaxItems :
            (CleanRun /\ Threshold > 0 /\ driver # "idle" /\ item_id = k * Threshold) =>
                /\ chunk_number = k
                /\ Len(sinks) = k
                /\ (driver = "closed" =>
                     \A i \in 1..Len(sinks) :
                         sinks[i].itemcount = Threshold /\ sinks[i].stores = 1))

\* A finished failure-free run of exactly two full chunks of two records.
C12_Witness ==
    /\ CleanRun /\ Threshold = 2 /\ item_id = 4 /\ driver = "closed"
    /\ result.call = "close_spider"
    /\ Len(sinks) = 2 /\ chunk_number = 2

\* A step that is an item_scraped call which returned normally.
ItemAccepted == item_id' = item_id + 1 /\ result'.exc = "none"

\* What a step does to the record counts of the sinks.
CounterStep ==
    /\ Len(sinks') \in {Len(sinks), Len(sinks) + 1}
    /\ \A i \in 1..Len(sinks) :
          \/ sinks'[i].itemcount = sinks[i].itemcount
          \/ /\ ItemAccepted
             /\ i = slot'
             /\ sinks'[i].itemcount = sinks[i].itemcount + 1
    /\ \A i \in (Len(sinks) + 1)..Len(sinks') :
          /\ slot' = i
          /\ sinks'[i].itemcount = IF ItemAccepted THEN 1 ELSE 0
    /\ ItemAccepted =>
          sinks'[slot'].itemcount =
              (IF slot' = slot THEN sinks[slot].itemcount ELSE 0) + 1

\* C13: Per-chunk counter.  The count of records of a sink is 0 when the sink
\* is opened (by open_spider or by a rotation), each item_scraped call that
\* returns normally increases the count of the current sink by exactly 1, and
\* no other step changes the count of any sink, so a count is never reset;
\* the count of a sink is the number of records it holds.
C13_PerChunkCounter ==
    /\ [][CounterStep]_vars
    /\ [](\A i \in 1..Len(sinks) : sinks[i].itemcount = Len(sinks[i].items))

\* An item_scraped call has just rotated and counted its record in the new
\* sink, beside a full earlier one.
C13_Witness ==
    /\ Configured /\ Threshold = 3
    /\ result = [call |-> "item_scraped", exc |-> "none"]
    /\ Len(sinks) = 2 /\ slot = 2
    /\ sinks[1].itemcount = 3 /\ sinks[2].itemcount = 1

\* What an item_scraped call does when a sink operation fails during it.
FailureStep ==
    (item_id' = item_id + 1 /\ faults' > faults) =>
        /\ result'.call = "item_scraped"
        /\ result'.exc \in SinkErrors
        /\ faults' = faults + 1
        /\ \A i \in 1..Len(sinks') : \A j \in 1..Len(sinks'[i].items) :
               sinks'[i].items[j] # item_id'
        /\ \A i \in 1..Len(sinks) : sinks'[i].items = sinks[i].items
        /\ result'.exc \in {"SinkCloseError", "SinkOpenError"} =>
               Len(sinks') = Len(sinks)

\* C14: Error propagation during rotation.  When closing the old sink or
\* opening the new one fails inside item_scraped, the call ends with that
\* error, after the one failed attempt and without a further sink being
\* opened, and the record of the call is in no chunk; when the write fails,
\* the call ends with the write error, and in each case the records written
\* before stay in their chunks.
C14_ErrorPropagation == [][FailureStep]_vars

\* An item_scraped call has just ended with the close error of a rotation,
\* the full chunk unchanged.
C14_Witness ==
    /\ Configured /\ Threshold = 2 /\ ~misused
    /\ result = [call |-> "item_scraped", exc |-> "SinkCloseError"]
    /\ faults = 1 /\ item_id = 3
    /\ Len(sinks) = 1 /\ sinks[1].items = <<1, 2>>

\* The address as a function of the template, the chunk number, the job id,
\* the project id and the rendered timestamp, and of nothing else.
AddressOf(tpl, cn, job, pid, ts) ==
    IF tpl = TemplateA THEN <<tpl, Pad2(cn)>> ELSE <<tpl, job, pid, ts, Pad2(cn)>>

\* The timestamps the clock has rendered so far.
RenderedTimestamps == {<<Day(t), Hour(t)>> : t \in 0..now}

\* The rendered timestamp an address carries, if its template has one.
TimestampIn(uri) == IF uri[1] = TemplateB THEN uri[4] ELSE <<>>

\* C15: Deterministic resolution.  The address of every sink is determined
\* by the template, the sink's chunk number, the job id and the project id
\* of the exporter and a timestamp the clock rendered, whatever else changed
\* before the sink was opened (the environment, the records, the sinks); so
\* two sinks opened with the same chunk number at the same rendered
\* timestamp have the same address.
C15_DeterministicResolution ==
    Configured =>
        /\ \A i \in 1..Len(sinks) : \E ts \in RenderedTimestamps :
               sinks[i].uri = AddressOf(urifmt[2], sinks[i].chunk_number,
                                        scrapy_job, scrapy_project_id, ts)
        /\ \A i, j \in 1..Len(sinks) :
               (/\ sinks[i].chunk_number = sinks[j].chunk_number
                /\ TimestampIn(sinks[i].uri) = TimestampIn(sinks[j].uri))
                   => sinks[i].uri = sinks[j].uri

\* Two sinks were opened with the same chunk number and timestamp, the
\* environment having changed since the exporter took its job id from it.
C15_Witness ==
    /\ Configured /\ urifmt = PyStr(TemplateB)
    /\ Len(sinks) = 2
    /\ sinks[1].chunk_number = sinks[2].chunk_number
    /\ sinks[1].uri = sinks[2].uri
    /\ scrapy_job = PyStr("job-e")
    /\ environ.SCRAPY_JOB = PyNone

\* C16: Accounting.  In every state of a failure-free run with threshold
\* t > 0 in which a sink has been opened, the number of records accepted so
\* far is (chunk_number - 1) * t plus the records of the current chunk, and
\* every chunk before the current one was closed holding exactly t records.
C16_Accounting ==
    (CleanRun /\ Threshold > 0 /\ Len(sinks) >= 1) =>
        /\ slot = Len(sinks)
        /\ item_id = (chunk_number - 1) * Threshold + sinks[slot].itemcount
        /\ \A i \in 1..(Len(sinks) - 1) :
              /\ Len(sinks[i].items) = Threshold
              /\ ~sinks[i].open

\* Five records accepted with threshold 2: two full chunks and a third
\* chunk holding one record.
C16_Witness ==
    /\ CleanRun /\ Threshold = 2 /\ driver = "open"
    /\ item_id = 5 /\ chunk_number = 3
    /\ Len(sinks) = 3 /\ sinks[3].items = <<5>>

\* What a step does to the caller's settings, and what the construction
\* step makes the exporter's own feed settings.
IsolationStep ==
    /\ settings' = settings
    /\ (state = "new" /\ state' = "configured") =>
          /\ self_settings'.FEED_URI = settings.CHUNKED_FEED_URI
          /\ self_settings'.FEED_FORMAT = settings.CHUNKED_FEED_FORMAT
          /\ urifmt' = settings.CHUNKED_FEED_URI
          /\ format' = settings.CHUNKED_FEED_FORMAT
          /\ \A name \in DOMAIN settings \ {"FEED_URI", "FEED_FORMAT"} :
                self_settings'[name] = settings[name]

\* C17: Settings isolation.  Constructing the exporter leaves the caller's
\* settings as they were, FEED_URI and FEED_FORMAT included, and no later
\* step changes them; the exporter's own FEED_URI and FEED_FORMAT are
\* CHUNKED_FEED_URI and CHUNKED_FEED_FORMAT whatever the caller had set for
\* FEED_URI and FEED_FORMAT, and its other settings are the caller's.
C17_SettingsIsolation == [][IsolationStep]_vars

\* An exporter constructed from settings whose FEED_URI and FEED_FORMAT
\* differ from the chunked ones.
C17_Witness ==
    /\ Configured
    /\ settings.FEED_URI = PyStr("stdout:") /\ settings.FEED_FORMAT = PyStr("csv")
    /\ self_settings.FEED_URI = PyStr(TemplateB) /\ self_settings.FEED_FORMAT = PyStr("json")
    /\ urifmt = PyStr(TemplateB) /\ format = PyStr("json")

====
